---------------------------- MODULE Spec2Model ----------------------------
(***************************************************************************)
(* A model of the job-feed pipeline of tech-jobs-ai-agent: the keyword     *)
(* extractor, the on-disk feed cache, cross-feed deduplication, the        *)
(* fetch-jobs tool (search) and the feed scheduler.                        *)
(*                                                                         *)
(* Strings are sequences of one-character strings, so that lower-casing,   *)
(* trimming, splitting and substring search are computed, not assumed.     *)
(* Times are milliseconds since the epoch, as Date.now() and mtimeMs are.  *)
(***************************************************************************)
EXTENDS Integers, Sequences, FiniteSets, TLC

VARIABLES
    now,                \* Date.now()
    advances,           \* how often the clock has been advanced (bounded)
    rssFeeds,           \* the configured feed list (fixed after Init)
    disk,               \* cache directory: cache filename -> file
    op,                 \* the last completed get / search / deduplicateJobs call
    isSchedulerActive,  \* feed-scheduler.ts module flag
    tasks,              \* node-cron's task registry, in order of creation
    passes,             \* the refreshAllFeeds executions, in order of start
    lastChange,         \* the last start/stop call that got past its guard
    sched               \* record of the last scheduler control call

vars == <<now, advances, rssFeeds, disk, op,
          isSchedulerActive, tasks, passes, lastChange, sched>>

schedVars == <<isSchedulerActive, tasks, passes, lastChange, sched>>

-----------------------------------------------------------------------------
(* Bounds of the model. *)

MaxAdvance == 3          \* clock advances per behaviour
MaxQueryWords == 2       \* raw tokens in a query
MaxJobs == 3             \* length of the job sequences given to deduplicateJobs
NumSearchFeeds == 2      \* configured feeds in the search / cache specifications
NumSchedFeeds == 6       \* configured feeds in the scheduler specification
MaxPasses == 2           \* refresh passes started per behaviour, feeds of two batches
MaxShortPasses == 3      \* refresh passes started per behaviour, feeds of one batch
MaxUrlTail == 3          \* characters after the host in the URLs given to getCacheFilename

-----------------------------------------------------------------------------
(* JavaScript values and string primitives. *)

\* undefined / null / a missing field; never equal to a string, since every
\* element of a string is a single character.
Undefined == <<"undefined">>

Min(a, b) == IF a < b THEN a ELSE b
Max(a, b) == IF a > b THEN a ELSE b

UpperChars == <<"A","B","C","D","E","F","G","H","I","J","K","L","M","N","O","P","Q","R","S","T","U","V","W","X","Y","Z">>
LowerChars == <<"a","b","c","d","e","f","g","h","i","j","k","l","m","n","o","p","q","r","s","t","u","v","w","x","y","z">>
DigitChars == <<"0","1","2","3","4","5","6","7","8","9">>

Range(s) == {s[i] : i \in 1..Len(s)}

toLowerChar(c) ==
    IF \E i \in 1..26 : UpperChars[i] = c
    THEN LowerChars[CHOOSE i \in 1..26 : UpperChars[i] = c]
    ELSE c

\* String.prototype.toLowerCase
toLowerCase(s) == [i \in 1..Len(s) |-> toLowerChar(s[i])]

\* \s of a JavaScript regular expression (the whitespace the model uses)
IsSpace(c) == c \in {" ", "\t", "\n"}

\* \w of a JavaScript regular expression: [A-Za-z0-9_]
IsWordChar(c) == c \in Range(UpperChars) \cup Range(LowerChars) \cup Range(DigitChars) \cup {"_"}

RECURSIVE trimStart(_)
trimStart(s) == IF s # <<>> /\ IsSpace(Head(s)) THEN trimStart(Tail(s)) ELSE s

RECURSIVE trimEnd(_)
trimEnd(s) ==
    IF s # <<>> /\ IsSpace(s[Len(s)]) THEN trimEnd(SubSeq(s, 1, Len(s) - 1)) ELSE s

\* String.prototype.trim
trim(s) == trimEnd(trimStart(s))

\* String.prototype.includes
includes(s, sub) ==
    \E i \in 0..(Len(s) - Len(sub)) : SubSeq(s, i + 1, i + Len(sub)) = sub

\* String.prototype.substring(0, n)
substring0(s, n) == SubSeq(s, 1, Min(Len(s), n))

\* [...new Set(xs)]: the distinct elements, in order of first occurrence
RECURSIVE uniqueInOrder(_)
uniqueInOrder(xs) ==
    IF xs = <<>> THEN <<>>
    ELSE LET init == uniqueInOrder(SubSeq(xs, 1, Len(xs) - 1))
             last == xs[Len(xs)]
         IN  IF last \in Range(init) THEN init ELSE Append(init, last)

\* input.replace(/[^\w\s+.#]/g, ""): drop every character that is not a word
\* character, whitespace, '+', '.' or '#'
stripPunctuation(s) ==
    SelectSeq(s, LAMBDA c : IsWordChar(c) \/ IsSpace(c) \/ c \in {"+", ".", "#"})

\* String.prototype.split(/\s+/): the pieces between maximal whitespace runs;
\* leading or trailing whitespace yields an empty first or last piece.
RECURSIVE splitFrom(_, _, _)
splitFrom(s, i, cur) ==
    IF i > Len(s) THEN <<cur>>
    ELSE IF IsSpace(s[i])
         THEN IF i > 1 /\ IsSpace(s[i - 1])
              THEN splitFrom(s, i + 1, cur)
              ELSE <<cur>> \o splitFrom(s, i + 1, <<>>)
         ELSE splitFrom(s, i + 1, Append(cur, s[i]))

splitWhitespace(s) == splitFrom(s, 1, <<>>)

-----------------------------------------------------------------------------
(* natural.PorterStemmer.stem: Porter's suffix-stripping algorithm (1980). *)

IsLetterVowel(c) == c \in {"a", "e", "i", "o", "u"}

\* position i of w is a vowel: a, e, i, o, u, or y preceded by a consonant
RECURSIVE IsVowelAt(_, _)
IsVowelAt(w, i) ==
    \/ IsLetterVowel(w[i])
    \/ w[i] = "y" /\ i > 1 /\ ~IsVowelAt(w, i - 1)

IsConsAt(w, i) == ~IsVowelAt(w, i)

\* m of [C](VC)^m[V]: the number of vowel-to-consonant changes
measure(w) == Cardinality({i \in 1..(Len(w) - 1) : IsVowelAt(w, i) /\ IsConsAt(w, i + 1)})

\* *v*
containsVowel(w) == \E i \in 1..Len(w) : IsVowelAt(w, i)

\* *d
endsWithDoublCons(w) ==
    Len(w) >= 2 /\ w[Len(w)] = w[Len(w) - 1] /\ IsConsAt(w, Len(w))

\* *o: ends consonant-vowel-consonant, the last not w, x or y
endsCVC(w) ==
    /\ Len(w) >= 3
    /\ IsConsAt(w, Len(w) - 2) /\ IsVowelAt(w, Len(w) - 1) /\ IsConsAt(w, Len(w))
    /\ w[Len(w)] \notin {"w", "x", "y"}

endsWith(w, suf) ==
    Len(w) >= Len(suf) /\ SubSeq(w, Len(w) - Len(suf) + 1, Len(w)) = suf

dropLast(w, n) == SubSeq(w, 1, Len(w) - n)

step1a(w) ==
    IF endsWith(w, <<"s","s","e","s">>) THEN dropLast(w, 2)
    ELSE IF endsWith(w, <<"i","e","s">>) THEN dropLast(w, 2)
    ELSE IF endsWith(w, <<"s","s">>) THEN w
    ELSE IF endsWith(w, <<"s">>) THEN dropLast(w, 1)
    ELSE w

\* the clean-up after a removed -ed / -ing
step1bFix(w) ==
    IF endsWith(w, <<"a","t">>) \/ endsWith(w, <<"b","l">>) \/ endsWith(w, <<"i","z">>) THEN Append(w, "e")
    ELSE IF endsWithDoublCons(w) /\ w[Len(w)] \notin {"l", "s", "z"} THEN dropLast(w, 1)
    ELSE IF measure(w) = 1 /\ endsCVC(w) THEN Append(w, "e")
    ELSE w

step1b(w) ==
    IF endsWith(w, <<"e","e","d">>)
    THEN IF measure(dropLast(w, 3)) > 0 THEN dropLast(w, 1) ELSE w
    ELSE IF endsWith(w, <<"e","d">>)
    THEN IF containsVowel(dropLast(w, 2)) THEN step1bFix(dropLast(w, 2)) ELSE w
    ELSE IF endsWith(w, <<"i","n","g">>)
    THEN IF containsVowel(dropLast(w, 3)) THEN step1bFix(dropLast(w, 3)) ELSE w
    ELSE w

step1c(w) ==
    IF endsWith(w, <<"y">>) /\ containsVowel(dropLast(w, 1))
    THEN Append(dropLast(w, 1), "i")
    ELSE w

\* The first rule of `rules` whose suffix ends w decides: the suffix is replaced
\* when the measure of the remaining stem exceeds `threshold`, else w is kept.
RECURSIVE applyRules(_, _, _)
applyRules(w, rules, threshold) ==
    IF rules = <<>> THEN w
    ELSE LET suf == Head(rules)[1]
             rep == Head(rules)[2]
         IN  IF endsWith(w, suf)
             THEN IF measure(dropLast(w, Len(suf))) > threshold
                  THEN dropLast(w, Len(suf)) \o rep
                  ELSE w
             ELSE applyRules(w, Tail(rules), threshold)

step2Rules ==
    << <<<<"a","t","i","o","n","a","l">>, <<"a","t","e">>>>, <<<<"t","i","o","n","a","l">>, <<"t","i","o","n">>>>, <<<<"e","n","c","i">>, <<"e","n","c","e">>>>,
       <<<<"a","n","c","i">>, <<"a","n","c","e">>>>, <<<<"i","z","e","r">>, <<"i","z","e">>>>, <<<<"a","b","l","i">>, <<"a","b","l","e">>>>,
       <<<<"a","l","l","i">>, <<"a","l">>>>, <<<<"e","n","t","l","i">>, <<"e","n","t">>>>, <<<<"e","l","i">>, <<"e">>>>,
       <<<<"o","u","s","l","i">>, <<"o","u","s">>>>, <<<<"i","z","a","t","i","o","n">>, <<"i","z","e">>>>, <<<<"a","t","i","o","n">>, <<"a","t","e">>>>,
       <<<<"a","t","o","r">>, <<"a","t","e">>>>, <<<<"a","l","i","s","m">>, <<"a","l">>>>, <<<<"i","v","e","n","e","s","s">>, <<"i","v","e">>>>,
       <<<<"f","u","l","n","e","s","s">>, <<"f","u","l">>>>, <<<<"o","u","s","n","e","s","s">>, <<"o","u","s">>>>, <<<<"a","l","i","t","i">>, <<"a","l">>>>,
       <<<<"i","v","i","t","i">>, <<"i","v","e">>>>, <<<<"b","i","l","i","t","i">>, <<"b","l","e">>>> >>

step2(w) == applyRules(w, step2Rules, 0)

step3Rules ==
    << <<<<"i","c","a","t","e">>, <<"i","c">>>>, <<<<"a","t","i","v","e">>, <<>>>>, <<<<"a","l","i","z","e">>, <<"a","l">>>>,
       <<<<"i","c","i","t","i">>, <<"i","c">>>>, <<<<"i","c","a","l">>, <<"i","c">>>>, <<<<"f","u","l">>, <<>>>>, <<<<"n","e","s","s">>, <<>>>> >>

step3(w) == applyRules(w, step3Rules, 0)

\* longest suffix first, so that the first match is the longest match
step4Suffixes ==
    << <<"e","m","e","n","t">>, <<"a","n","c","e">>, <<"e","n","c","e">>, <<"a","b","l","e">>, <<"i","b","l","e">>, <<"m","e","n","t">>, <<"a","n","t">>, <<"e","n","t">>,
       <<"i","s","m">>, <<"a","t","e">>, <<"i","t","i">>, <<"o","u","s">>, <<"i","v","e">>, <<"i","z","e">>, <<"a","l">>, <<"e","r">>, <<"i","c">>, <<"o","u">> >>

RECURSIVE step4From(_, _)
step4From(w, sufs) ==
    IF sufs = <<>>
    THEN IF endsWith(w, <<"i","o","n">>)
            /\ Len(w) >= 4 /\ w[Len(w) - 3] \in {"s", "t"}
            /\ measure(dropLast(w, 3)) > 1
         THEN dropLast(w, 3)
         ELSE w
    ELSE IF endsWith(w, Head(sufs))
         THEN IF measure(dropLast(w, Len(Head(sufs)))) > 1
              THEN dropLast(w, Len(Head(sufs)))
              ELSE w
         ELSE step4From(w, Tail(sufs))

step4(w) == step4From(w, step4Suffixes)

step5a(w) ==
    IF endsWith(w, <<"e">>)
    THEN LET st == dropLast(w, 1)
         IN  IF measure(st) > 1 \/ (measure(st) = 1 /\ ~endsCVC(st)) THEN st ELSE w
    ELSE w

step5b(w) ==
    IF measure(w) > 1 /\ endsWithDoublCons(w) /\ w[Len(w)] = "l"
    THEN dropLast(w, 1)
    ELSE w

\* PorterStemmer.stem(token)
stem(w) ==
    IF Len(w) < 3 THEN w
    ELSE step5b(step5a(step4(step3(step2(step1c(step1b(step1a(w))))))))

-----------------------------------------------------------------------------
(* keyword-extractor.ts *)

stopwords == {
    <<"f","i","n","d">>, <<"s","h","o","w">>, <<"l","a","t","e","s","t">>, <<"r","e","m","o","t","e">>, <<"j","o","b">>, <<"j","o","b","s">>, <<"f","o","r">>, <<"m","e">>,
    <<"t","h","e">>, <<"a">>, <<"a","n">>, <<"a","n","d">>, <<"o","r">>, <<"i","s">>, <<"a","r","e">>, <<"w","a","s">>, <<"b","e">>, <<"i">>,
    <<"w","a","n","t">>, <<"g","e","t">>, <<"i","n">>, <<"o","n">>, <<"a","t">>, <<"t","o">>, <<"f","r","o","m">>, <<"w","i","t","h">>, <<"o","f">>,
    <<"b","y">>, <<"a","b","o","u","t">>, <<"a","s">>, <<"y","o","u">>, <<"w","e">>, <<"t","h","e","y">>, <<"y","o","u","r">>, <<"m","y">>, <<"o","u","r">>,
    <<"t","h","e","i","r">>, <<"t","h","i","s">>, <<"t","h","a","t">>, <<"c","a","n">>, <<"w","i","l","l">>, <<"s","h","o","u","l","d">>, <<"c","o","u","l","d">>,
    <<"m","a","y">>, <<"a","l","s","o">>, <<"t","h","e","n">>, <<"s","o">>, <<"s","u","c","h">>, <<"h","e","r","e">>, <<"t","h","e","r","e">>, <<"a","l","l">>,
    <<"a","n","y">>, <<"e","a","c","h">>, <<"o","t","h","e","r">>, <<"s","o","m","e">>, <<"m","a","n","y">>, <<"m","o","s","t">>, <<"f","e","w">>, <<"o","v","e","r">>,
    <<"u","n","d","e","r">>, <<"u","p">>, <<"d","o","w","n">>, <<"i","n","t","o">>, <<"o","u","t">>, <<"o","f","f">>, <<"a","f","t","e","r">>, <<"b","e","f","o","r","e">>,
    <<"d","u","r","i","n","g">>, <<"w","h","i","l","e">>, <<"b","e","t","w","e","e","n">>, <<"w","i","t","h","i","n">>, <<"w","i","t","h","o","u","t">>, <<"l","i","k","e">>,
    <<"j","u","s","t">>, <<"n","o","w">>, <<"n","e","w">>, <<"a","v","a","i","l","a","b","l","e">>, <<"o","p","p","o","r","t","u","n","i","t","y">>, <<"p","o","s","i","t","i","o","n">>,
    <<"r","o","l","e">>, <<"a","p","p","l","y">>, <<"a","p","p","l","i","c","a","t","i","o","n">>, <<"l","o","o","k","i","n","g">>, <<"n","e","e","d","e","d">>, <<"r","e","q","u","i","r","e","d">>,
    <<"r","e","s","p","o","n","s","i","b","i","l","i","t","i","e","s">>, <<"e","x","p","e","r","i","e","n","c","e">>, <<"s","k","i","l","l","s">>, <<"t","e","a","m">>, <<"w","o","r","k">>,
    <<"w","o","r","k","i","n","g">>, <<"c","o","m","p","a","n","y">>, <<"c","o","m","p","a","n","i","e","s">>, <<"o","r","g","a","n","i","z","a","t","i","o","n">>, <<"i","n","d","u","s","t","r","y">>,
    <<"f","u","l","l","t","i","m","e">>, <<"p","a","r","t","t","i","m","e">>, <<"c","o","n","t","r","a","c","t">>, <<"f","r","e","e","l","a","n","c","e">>, <<"p","e","r","m","a","n","e","n","t">>,
    <<"t","e","m","p","o","r","a","r","y">>, <<"i","m","m","e","d","i","a","t","e">>, <<"j","o","i","n">>, <<"h","i","r","i","n","g">>, <<"l","o","o","k","i","n","g","f","o","r">>, <<"o","p","e","n">>,
    <<"o","p","e","n","s">>, <<"p","o","s","t","i","n","g">>, <<"p","o","s","t">>, <<"p","o","s","t","e","d">>, <<"r","e","c","e","n","t">>, <<"u","p","d","a","t","e","d">> }

\* extractKeywords(input): lower-case, strip punctuation, split on whitespace,
\* drop short tokens and stopwords, stem, remove duplicates
extractKeywords(input) ==
    LET words == splitWhitespace(stripPunctuation(toLowerCase(input)))
        kept  == SelectSeq(words, LAMBDA word : Len(word) > 2 /\ word \notin stopwords)
    IN  uniqueInOrder([i \in 1..Len(kept) |-> stem(kept[i])])

-----------------------------------------------------------------------------
(* feed-cache.ts: listings, cache files and the cache key *)

\* the printable ASCII characters, code 32 (space) to 126 (~); the quote,
\* backslash and backtick slots hold names, as no URL of the model uses them
AsciiPrintable == <<
    " ","!","(quote)","#","$","%","&","'","(",")","*","+",",","-",".","/","0",
    "1","2","3","4","5","6","7","8","9",":",";","<","=",">","?","@","A","B",
    "C","D","E","F","G","H","I","J","K","L","M","N","O","P","Q","R","<<",">>T",
    "U","V","W","X","Y","Z","[","(backslash)","]","^","_","(backtick)","a","b","c","d","e",
    "f","g","h","i","j","k","l","m","n","o","p","q","r","s","t","u","v","w",
    "x","y","z","{","|","}","~" >>

\* the byte of a character, as Buffer.from(feedUrl) yields it
charCode(c) == 31 + CHOOSE i \in 1..Len(AsciiPrintable) : AsciiPrintable[i] = c

Base64Alphabet == UpperChars \o LowerChars \o DigitChars \o <<"+","/">>

sextetChar(n) == Base64Alphabet[n + 1]

\* Buffer.toString('base64'): three bytes to four characters, '=' padding
RECURSIVE base64(_)
base64(s) ==
    IF s = <<>> THEN <<>>
    ELSE LET b1 == charCode(s[1])
             b2 == IF Len(s) >= 2 THEN charCode(s[2]) ELSE 0
             b3 == IF Len(s) >= 3 THEN charCode(s[3]) ELSE 0
             c1 == sextetChar(b1 \div 4)
             c2 == sextetChar((b1 % 4) * 16 + (b2 \div 16))
             c3 == IF Len(s) >= 2 THEN sextetChar((b2 % 16) * 4 + (b3 \div 64)) ELSE "="
             c4 == IF Len(s) >= 3 THEN sextetChar(b3 % 64) ELSE "="
         IN  <<c1, c2, c3, c4>> \o (IF Len(s) > 3 THEN base64(SubSeq(s, 4, Len(s))) ELSE <<>>)

CACHE_DIR == <<".","c","a","c","h","e","/","j","o","b","s","/">>

\* getCacheFilename(feedUrl): base64 of the URL with '/', '+' and '=' replaced by '_'
getCacheFilename(feedUrl) ==
    LET b    == base64(feedUrl)
        hash == [i \in 1..Len(b) |-> IF b[i] \in {"/", "+", "="} THEN "_" ELSE b[i]]
    IN  CACHE_DIR \o hash \o <<".","j","s","o","n">>

CACHE_TTL == 4 * 60 * 60 * 1000

\* a Date that is not a time value (toISOString throws a RangeError on it)
InvalidDate == <<"invalid-date">>

\* a Date holding the time value ms
DateOf(ms) == <<"date", ms>>

\* Date.prototype.toISOString: the ISO-8601 text of a time value; the text is
\* kept as the tagged time value it denotes
toISOString(date) == <<"iso", date[2]>>

\* new Date(isoText).getTime()
getTime(text) == text[2]

\* JavaScript falsiness of a string-or-missing value
Falsy(v) == v = Undefined \/ v = <<>>

\* lines 115-121: the CachedJob made from one parsed feed item
toCachedJob(item, feedUrl) ==
    [ title       |-> IF Falsy(item.title) THEN <<"N","o"," ","t","i","t","l","e">> ELSE item.title,
      link        |-> IF Falsy(item.url) THEN <<>> ELSE item.url,
      description |-> IF Falsy(item.description) \/ substring0(item.description, 500) = <<>>
                      THEN <<"N","o"," ","d","e","s","c","r","i","p","t","i","o","n">>
                      ELSE substring0(item.description, 500),
      pubDate     |-> IF item.published = Undefined THEN Undefined
                      ELSE toISOString(item.published),
      source      |-> feedUrl ]

\* the item loop of fetchFeedWithCache throws when an item's date is invalid
itemsThrow(items) == \E i \in 1..Len(items) : items[i].published = InvalidDate

toCachedJobs(items, feedUrl) == [i \in 1..Len(items) |-> toCachedJob(items[i], feedUrl)]

\* a value is a listing deduplicateJobs can key: an object with a string link
HasStringLink(job) == job.link # Undefined

\* job.link.toLowerCase().trim()
linkKey(job) == trim(toLowerCase(job.link))

\* deduplicateJobs collecting the kept jobs newest-first (unshift for push)
RECURSIVE deduplicateJobsUnshift(_)
deduplicateJobsUnshift(allJobs) ==
    IF allJobs = <<>> THEN <<>>
    ELSE LET seen == deduplicateJobsUnshift(SubSeq(allJobs, 1, Len(allJobs) - 1))
             job  == allJobs[Len(allJobs)]
         IN  IF \E k \in 1..Len(seen) : linkKey(seen[k]) = linkKey(job)
             THEN seen
             ELSE <<job>> \o seen

\* deduplicateJobs with seen.set before the seen.has test: the last job of a
\* key replaces the first
RECURSIVE deduplicateJobsLastWins(_)
deduplicateJobsLastWins(allJobs) ==
    IF allJobs = <<>> THEN <<>>
    ELSE LET seen == deduplicateJobsLastWins(SubSeq(allJobs, 1, Len(allJobs) - 1))
             job  == allJobs[Len(allJobs)]
         IN  IF \E k \in 1..Len(seen) : linkKey(seen[k]) = linkKey(job)
             THEN [k \in 1..Len(seen) |->
                      IF linkKey(seen[k]) = linkKey(job) THEN job ELSE seen[k]]
             ELSE Append(seen, job)

\* deduplicateJobs that never takes a listing with an empty key for a duplicate
RECURSIVE deduplicateJobsKeepsBlank(_)
deduplicateJobsKeepsBlank(allJobs) ==
    IF allJobs = <<>> THEN <<>>
    ELSE LET seen == deduplicateJobsKeepsBlank(SubSeq(allJobs, 1, Len(allJobs) - 1))
             job  == allJobs[Len(allJobs)]
         IN  IF linkKey(job) # <<>> /\ \E k \in 1..Len(seen) : linkKey(seen[k]) = linkKey(job)
             THEN seen
             ELSE Append(seen, job)

\* deduplicateJobs(allJobs): a Map from linkKey to the first job with that
\* key; Array.from(seen.values()) lists them in insertion order
RECURSIVE deduplicateJobs(_)
deduplicateJobs(allJobs) ==
    IF allJobs = <<>> THEN <<>>
    ELSE LET seen == deduplicateJobs(SubSeq(allJobs, 1, Len(allJobs) - 1))
             job  == allJobs[Len(allJobs)]
         IN  IF \E k \in 1..Len(seen) : linkKey(seen[k]) = linkKey(job)
             THEN seen
             ELSE Append(seen, job)

\* job.link.toLowerCase() is a TypeError when link is not a string
deduplicateThrows(allJobs) == \E i \in 1..Len(allJobs) : ~HasStringLink(allJobs[i])

-----------------------------------------------------------------------------
(* The configured feeds and what their servers may answer. *)

\* rss-feeds.ts lists 27 URLs; the model configures a prefix of these
AllFeeds ==
    << <<"f",".","i","o","/","a">>, <<"f",".","i","o","/","b">>, <<"f",".","i","o","/","c">>, <<"f",".","i","o","/","d">>,
       <<"f",".","i","o","/","e">>, <<"f",".","i","o","/","f">>, <<"f",".","i","o","/","g">>, <<"f",".","i","o","/","h">>,
       <<"f",".","i","o","/","i">>, <<"f",".","i","o","/","j">> >>

ItemFlutter ==
    [title |-> <<"F","l","u","t","t","e","r"," ","D","e","v">>, url |-> <<"J",".","i","o","/","1">>,
     description |-> <<"r","u","b","y"," ","a","p","i">>, published |-> DateOf(2000)]

\* the same posting as ItemFlutter, syndicated with another spelling of the link
ItemFlutterCopy ==
    [title |-> <<"F","l","u","t","t","e","r"," ","(","c","o","p","y",")">>, url |-> <<" ","j",".","i","o","/","1"," ">>,
     description |-> <<"f","l","u","t","t","e","r",","," ","f","l","u","t","t","e","r">>, published |-> DateOf(3000)]

ItemQA ==
    [title |-> <<"Q","A"," ","E","n","g","i","n","e","e","r">>, url |-> <<"j",".","i","o","/","2">>,
     description |-> <<"t","e","s","t","s"," ","f","l","u","t","t","e","r">>, published |-> Undefined]

\* an item with no title, no URL, no description and no date
ItemBare ==
    [title |-> Undefined, url |-> Undefined,
     description |-> Undefined, published |-> Undefined]

\* a second item without URL, a different job
ItemNoUrl ==
    [title |-> <<"G","o"," ","e","n","g","i","n","e","e","r">>, url |-> Undefined,
     description |-> <<>>, published |-> DateOf(0 - 5)]

\* an item whose URL is blank
ItemBlankUrl ==
    [title |-> <<"R","u","s","t"," ","d","e","v">>, url |-> <<" "," ">>,
     description |-> <<"r","u","s","t">>, published |-> Undefined]

ItemBadDate ==
    [title |-> <<"F","l","u","t","t","e","r">>, url |-> <<"j",".","i","o","/","3">>,
     description |-> <<"x">>, published |-> InvalidDate]

\* the documents a feed's server may serve (parsed by parseFeed into items)
RemoteBodies(feedUrl) ==
    IF feedUrl = AllFeeds[1] THEN { <<ItemFlutter, ItemBare>>, <<ItemQA>> }
    ELSE IF feedUrl = AllFeeds[2] THEN { <<ItemFlutterCopy, ItemNoUrl>>, <<ItemBadDate>>, <<>> }
    ELSE { <<ItemQA>> }

-----------------------------------------------------------------------------
(* feed-cache.ts: the cache operations.  A cache file is                   *)
(*   [mtime, parses, shape, jobs, timestamp, feedUrl]:                     *)
(* parses = FALSE is a file JSON.parse (or the access to its fields)       *)
(* rejects; shape says what the parsed object has under "jobs": "list" (an *)
(* array, held in jobs), "null", or "undefined" when there is no such      *)
(* field.  A value returned by the cache is [tag, jobs] in the same way.   *)
(* Each operation yields the SET of results the environment allows (an     *)
(* I/O error, the server's answer, a failing write).                       *)

RetNull == [tag |-> "null", jobs |-> <<>>]
RetUndefined == [tag |-> "undefined", jobs |-> <<>>]
RetList(jobs) == [tag |-> "list", jobs |-> jobs]

NoFiles == [n \in {} |-> 0]

FileExists(d, name) == name \in DOMAIN d

\* fs.writeFile(name, file)
WriteFile(d, name, file) ==
    [n \in DOMAIN d \cup {name} |-> IF n = name THEN file ELSE d[n]]

\* isCacheValid without the age test
isCacheValidNoTtl(d, t, cacheFile, statOK) ==
    /\ statOK
    /\ FileExists(d, cacheFile)

\* isCacheValid(cacheFile): stat succeeded (statOK) and the file is younger than the TTL
isCacheValid(d, t, cacheFile, statOK) ==
    /\ statOK
    /\ FileExists(d, cacheFile)
    /\ t - d[cacheFile].mtime < CACHE_TTL

\* loadFromCache that never finds a valid entry
loadFromCacheAlwaysMiss(d, t, feedUrl, ioOK) == RetNull

\* loadFromCache(feedUrl); ioOK: stat and readFile succeed
loadFromCache(d, t, feedUrl, ioOK) ==
    LET cacheFile == getCacheFilename(feedUrl)
    IN  IF ~isCacheValid(d, t, cacheFile, ioOK) THEN RetNull
        ELSE IF ~d[cacheFile].parses THEN RetNull
        ELSE [tag |-> d[cacheFile].shape, jobs |-> d[cacheFile].jobs]

\* the file saveToCache writes: JSON.stringify of {feedUrl, timestamp, jobs}
CacheRecord(t, feedUrl, jobs) ==
    [mtime |-> t, parses |-> TRUE, shape |-> "list", jobs |-> jobs,
     timestamp |-> t, feedUrl |-> feedUrl]

\* saveToCache(feedUrl, jobs): the disk afterwards; a failing write is swallowed
saveToCache(d, t, feedUrl, jobs, writeOK) ==
    IF writeOK
    THEN WriteFile(d, getCacheFilename(feedUrl), CacheRecord(t, feedUrl, jobs))
    ELSE d

\* what the server of a feed may answer: an error (network error, non-2xx
\* status, timeout, or a body parseFeed rejects) or a parsed document
FetchAnswers(feedUrl) ==
    {[ok |-> FALSE, items |-> <<>>]}
        \cup {[ok |-> TRUE, items |-> b] : b \in RemoteBodies(feedUrl)}

\* the live fetch with saveToCache's error not caught: a failing write ends
\* in the catch of line 128
fetchFreshWriteThrows(d, t, feedUrl, answer, writeOK) ==
    IF ~answer.ok \/ itemsThrow(answer.items) \/ ~writeOK
    THEN [ret |-> RetList(<<>>), disk |-> d, fetched |-> TRUE,
          failed |-> ~answer.ok \/ itemsThrow(answer.items), wrote |-> FALSE]
    ELSE LET jobs == toCachedJobs(answer.items, feedUrl)
         IN  [ret |-> RetList(jobs), disk |-> saveToCache(d, t, feedUrl, jobs, writeOK),
              fetched |-> TRUE, failed |-> FALSE, wrote |-> writeOK]

\* the live fetch saving an empty entry when the fetch or the parse fails
fetchFreshCachesFailure(d, t, feedUrl, answer, writeOK) ==
    IF ~answer.ok \/ itemsThrow(answer.items)
    THEN [ret |-> RetList(<<>>), disk |-> saveToCache(d, t, feedUrl, <<>>, writeOK),
          fetched |-> TRUE, failed |-> TRUE, wrote |-> writeOK]
    ELSE LET jobs == toCachedJobs(answer.items, feedUrl)
         IN  [ret |-> RetList(jobs), disk |-> saveToCache(d, t, feedUrl, jobs, writeOK),
              fetched |-> TRUE, failed |-> FALSE, wrote |-> writeOK]

\* lines 108-131 of fetchFeedWithCache: the live fetch, given the server's answer
fetchFresh(d, t, feedUrl, answer, writeOK) ==
    IF ~answer.ok \/ itemsThrow(answer.items)
    THEN [ret |-> RetList(<<>>), disk |-> d, fetched |-> TRUE, failed |-> TRUE,
          wrote |-> FALSE]
    ELSE LET jobs == toCachedJobs(answer.items, feedUrl)
         IN  [ret |-> RetList(jobs), disk |-> saveToCache(d, t, feedUrl, jobs, writeOK),
              fetched |-> TRUE, failed |-> FALSE, wrote |-> writeOK]

\* fetchFeedWithCache(feedUrl) when the cache I/O succeeds or fails as ioOK says:
\* the results it may have on disk d at time t
fetchFeedWithCacheIO(d, t, feedUrl, ioOK) ==
    LET cachedJobs == loadFromCache(d, t, feedUrl, ioOK)
    IN  IF cachedJobs # RetNull
        THEN {[ret |-> cachedJobs, disk |-> d, fetched |-> FALSE, failed |-> FALSE,
               wrote |-> FALSE, ioError |-> FALSE]}
        ELSE {[ret |-> r.ret, disk |-> r.disk, fetched |-> TRUE, failed |-> r.failed,
               wrote |-> r.wrote, ioError |-> ~ioOK] :
              r \in {fetchFresh(d, t, feedUrl, a, w) :
                        a \in FetchAnswers(feedUrl), w \in BOOLEAN}}

\* a stat or read error can only strike a file that is there
IoChoices(d, feedUrl) ==
    IF FileExists(d, getCacheFilename(feedUrl)) THEN BOOLEAN ELSE {TRUE}

\* fetchFeedWithCache(feedUrl): every result the environment allows
fetchFeedWithCache(d, t, feedUrl) ==
    UNION {fetchFeedWithCacheIO(d, t, feedUrl, ioOK) : ioOK \in IoChoices(d, feedUrl)}

\* clearCache(): unlink every file of the cache directory
clearCache(d) == NoFiles

-----------------------------------------------------------------------------
(* rss-tool.ts: the fetch-jobs tool (search). *)

\* (job.title || '').toLowerCase()
lowerOrEmpty(v) == IF Falsy(v) THEN <<>> ELSE toLowerCase(v)

\* keywords.filter(kw => title.includes(kw)).length
titleMatches(job, keywords) ==
    Len(SelectSeq(keywords, LAMBDA kw : includes(lowerOrEmpty(job.title), kw)))

\* keywords.filter(kw => description.includes(kw)).length
descMatches(job, keywords) ==
    Len(SelectSeq(keywords, LAMBDA kw : includes(lowerOrEmpty(job.description), kw)))

\* the keyword filter looking at titles only
matchesKeywordsTitleOnly(job, keywords) ==
    titleMatches(job, keywords) > 0

\* lines 68-76: the keyword filter
matchesKeywords(job, keywords) ==
    titleMatches(job, keywords) + descMatches(job, keywords) > 0

\* the score without the weight of the title
relevanceScoreUnweighted(job, keywords) ==
    titleMatches(job, keywords) + descMatches(job, keywords)

\* line 91: title matches count twice
relevanceScore(job, keywords) ==
    (titleMatches(job, keywords) * 2) + descMatches(job, keywords)

\* a.pubDate ? new Date(a.pubDate).getTime() : 0
dateOrZero(job) == IF Falsy(job.pubDate) THEN 0 ELSE getTime(job.pubDate)

\* the comparator of lines 103-112: negative when a sorts before b
compareJobs(a, b, keywords) ==
    IF relevanceScore(b, keywords) # relevanceScore(a, keywords)
    THEN relevanceScore(b, keywords) - relevanceScore(a, keywords)
    ELSE dateOrZero(b) - dateOrZero(a)

\* x put before the first element that the comparator orders after it
RECURSIVE insertSorted(_, _, _)
insertSorted(sorted, x, keywords) ==
    IF sorted = <<>> THEN <<x>>
    ELSE IF compareJobs(Head(sorted), x, keywords) > 0
         THEN <<x>> \o sorted
         ELSE <<Head(sorted)>> \o insertSorted(Tail(sorted), x, keywords)

\* Array.prototype.sort with that comparator (a stable sort)
RECURSIVE sortJobs(_, _)
sortJobs(jobs, keywords) ==
    IF jobs = <<>> THEN <<>>
    ELSE insertSorted(sortJobs(SubSeq(jobs, 1, Len(jobs) - 1), keywords),
                      jobs[Len(jobs)], keywords)

\* Array.prototype.slice(0, limit) for an integer limit
slice0(s, limit) ==
    IF limit >= 0 THEN SubSeq(s, 1, Min(limit, Len(s)))
    ELSE SubSeq(s, 1, Max(Len(s) + limit, 0))

\* lines 64-112: deduplicate, filter, score, sort
sortedMatches(allJobs, keywords) ==
    LET uniqueJobs  == deduplicateJobs(allJobs)
        matchedJobs == SelectSeq(uniqueJobs, LAMBDA job : matchesKeywords(job, keywords))
    IN  sortJobs(matchedJobs, keywords)

\* the relevanceScore field of lines 82-99, for each job of a list
scoresOf(jobs, keywords) == [i \in 1..Len(jobs) |-> relevanceScore(jobs[i], keywords)]

\* the feed loop with each feed's jobs put in front of those already loaded
RECURSIVE loadFeedsPrepend(_, _, _, _)
loadFeedsPrepend(feeds, i, t, acc) ==
    IF i > Len(feeds) THEN {acc}
    ELSE UNION {
           loadFeedsPrepend(feeds, i + 1, t,
               [disk    |-> r.disk,
                allJobs |-> IF r.ret.tag = "list" THEN r.ret.jobs \o acc.allJobs
                            ELSE acc.allJobs,
                gets    |-> Append(acc.gets,
                                   [feed |-> feeds[i], ret |-> r.ret,
                                    fetched |-> r.fetched, failed |-> r.failed,
                                    ioError |-> r.ioError])]) :
           r \in fetchFeedWithCache(acc.disk, t, feeds[i]) }

\* lines 50-58: the feed loop from feed i on.  acc = [disk, allJobs, gets];
\* gets lists, per feed consulted, what fetchFeedWithCache did.  A returned
\* value without a length (undefined) makes line 53 throw inside the try:
\* the feed is skipped.
RECURSIVE loadFeeds(_, _, _, _)
loadFeeds(feeds, i, t, acc) ==
    IF i > Len(feeds) THEN {acc}
    ELSE UNION {
           loadFeeds(feeds, i + 1, t,
               [disk    |-> r.disk,
                allJobs |-> IF r.ret.tag = "list" THEN acc.allJobs \o r.ret.jobs
                            ELSE acc.allJobs,
                gets    |-> Append(acc.gets,
                                   [feed |-> feeds[i], ret |-> r.ret,
                                    fetched |-> r.fetched, failed |-> r.failed,
                                    ioError |-> r.ioError])]) :
           r \in fetchFeedWithCache(acc.disk, t, feeds[i]) }

\* lines 46-122 of execute: load every feed, then rank.  ranked is the sorted
\* list before .slice(0, limit), scores its relevanceScore fields.
executeFeeds(feeds, d, t, query, limit, keywords) ==
    {IF deduplicateThrows(acc.allJobs)
     THEN [query |-> query, limit |-> limit, keywords |-> keywords,
           threw |-> TRUE, jobs |-> <<>>, total |-> 0, ranked |-> <<>>, scores |-> <<>>,
           gets |-> acc.gets, allJobs |-> acc.allJobs, disk |-> acc.disk]
     ELSE LET ranked     == sortedMatches(acc.allJobs, keywords)
              sortedJobs == slice0(ranked, limit)
          IN  [query |-> query, limit |-> limit, keywords |-> keywords,
               threw |-> FALSE, jobs |-> sortedJobs, total |-> Len(sortedJobs),
               ranked |-> ranked, scores |-> scoresOf(ranked, keywords),
               gets |-> acc.gets, allJobs |-> acc.allJobs, disk |-> acc.disk] :
     acc \in loadFeeds(feeds, 1, t, [disk |-> d, allJobs |-> <<>>, gets |-> <<>>])}

\* execute without the early return of lines 37-44
executeNoShortCircuit(feeds, d, t, query, limit) ==
    executeFeeds(feeds, d, t, query, limit, extractKeywords(query))

\* execute reporting as total the number of listings that matched
executeTotalMatched(feeds, d, t, query, limit) ==
    LET keywords == extractKeywords(query)
    IN  IF Len(keywords) = 0
        THEN {[query |-> query, limit |-> limit, keywords |-> keywords,
               threw |-> FALSE, jobs |-> <<>>, total |-> 0, ranked |-> <<>>, scores |-> <<>>,
               gets |-> <<>>, allJobs |-> <<>>, disk |-> d]}
        ELSE {[r EXCEPT !.total = Len(r.ranked)] :
                 r \in executeFeeds(feeds, d, t, query, limit, keywords)}

\* rssTool.execute({query, limit}): the outcomes it may have
execute(feeds, d, t, query, limit) ==
    LET keywords == extractKeywords(query)
    IN  IF Len(keywords) = 0
        THEN {[query |-> query, limit |-> limit, keywords |-> keywords,
               threw |-> FALSE, jobs |-> <<>>, total |-> 0, ranked |-> <<>>, scores |-> <<>>,
               gets |-> <<>>, allJobs |-> <<>>, disk |-> d]}
        ELSE executeFeeds(feeds, d, t, query, limit, keywords)

-----------------------------------------------------------------------------
(* Inputs. *)

QueryTokens == { <<"t","h","e">>, <<"J","o","b","s","!">>, <<"g","o">>, <<"?","!">>, <<"F","l","u","t","t","e","r">>, <<"e","n","g","i","n","e","e","r","s">> }

RECURSIVE joinWords(_)
joinWords(ws) ==
    IF ws = <<>> THEN <<>>
    ELSE IF Len(ws) = 1 THEN ws[1]
    ELSE ws[1] \o <<" ">> \o joinWords(Tail(ws))

\* the queries: up to MaxQueryWords tokens separated by single spaces
Queries == {joinWords(ws) : ws \in UNION {[1..n -> QueryTokens] : n \in 0..MaxQueryWords}}

\* z.number() accepts any number; the default is 10
SearchLimits == {0 - 1, 0, 1, 2, 10}

\* listings as the fetcher produces them, from two feeds
JobPool ==
    { toCachedJob(ItemFlutter, AllFeeds[1]), toCachedJob(ItemFlutterCopy, AllFeeds[2]),
      toCachedJob(ItemQA, AllFeeds[1]), toCachedJob(ItemQA, AllFeeds[2]),
      toCachedJob(ItemBare, AllFeeds[1]), toCachedJob(ItemNoUrl, AllFeeds[2]),
      toCachedJob(ItemBlankUrl, AllFeeds[2]) }

JobSeqs == UNION {[1..n -> JobPool] : n \in 0..MaxJobs}

\* an array element that is no listing (an object without a link)
BadJob ==
    [title |-> <<"x">>, link |-> Undefined, description |-> <<"x">>,
     pubDate |-> Undefined, source |-> Undefined]

\* contents a cache file can have that saveToCache did not write:
\*   "garbage"  text that is not JSON (a truncated write, say)
\*   "nojobs"   a JSON object without a "jobs" field, such as {}
\*   "badjob"   {"jobs": [{...}]} whose element has no string link
ForeignKinds == {"garbage", "nojobs", "badjob"}

ForeignFile(t, kind) ==
    [mtime |-> t, parses |-> kind # "garbage",
     shape |-> IF kind = "nojobs" THEN "undefined" ELSE "list",
     jobs |-> IF kind = "badjob" THEN <<BadJob>> ELSE <<>>,
     timestamp |-> 0 - 1, feedUrl |-> <<>>]

Feeds == Range(rssFeeds)

NoOp == [kind |-> "none"]

-----------------------------------------------------------------------------
(* Actions of the cache and of search. *)

\* the file a get finds under the feed's cache key, if any
FileBefore(d, feedUrl) ==
    IF FileExists(d, getCacheFilename(feedUrl))
    THEN [exists |-> TRUE, file |-> d[getCacheFilename(feedUrl)]]
    ELSE [exists |-> FALSE, file |-> ForeignFile(0, "garbage")]

\* a caller awaits fetchFeedWithCache(feedUrl)
Get(feedUrl) ==
    /\ op = NoOp
    /\ \E r \in fetchFeedWithCache(disk, now, feedUrl) :
          /\ disk' = r.disk
          /\ op' = [kind |-> "get", feed |-> feedUrl, at |-> now,
                    before |-> FileBefore(disk, feedUrl),
                    ret |-> r.ret, fetched |-> r.fetched, failed |-> r.failed,
                    wrote |-> r.wrote, ioError |-> r.ioError]
    /\ UNCHANGED <<now, advances, rssFeeds, schedVars>>

\* a caller awaits rssTool.execute({context: {query, limit}})
Search(query, limit) ==
    /\ op = NoOp
    /\ \E r \in execute(rssFeeds, disk, now, query, limit) :
          /\ disk' = r.disk
          /\ op' = [kind |-> "search", query |-> r.query, limit |-> r.limit,
                    keywords |-> r.keywords, threw |-> r.threw,
                    jobs |-> r.jobs, total |-> r.total,
                    ranked |-> r.ranked, scores |-> r.scores,
                    gets |-> r.gets, allJobs |-> r.allJobs]
    /\ UNCHANGED <<now, advances, rssFeeds, schedVars>>

\* a caller applies deduplicateJobs to allJobs, and again to the result
Deduplicate(allJobs) ==
    /\ op.kind \in {"none", "input"}
    /\ op' = [kind |-> "dedup", input |-> allJobs,
              once |-> deduplicateJobs(allJobs),
              twice |-> deduplicateJobs(deduplicateJobs(allJobs))]
    /\ UNCHANGED <<now, advances, rssFeeds, disk, schedVars>>

\* something other than saveToCache writes a feed's cache file
ForeignWrite(feedUrl, kind) ==
    /\ op = NoOp
    /\ disk' = WriteFile(disk, getCacheFilename(feedUrl), ForeignFile(now, kind))
    /\ UNCHANGED <<now, advances, rssFeeds, op, schedVars>>

\* the CLI's clear command
ClearCache ==
    /\ op = NoOp
    /\ disk # NoFiles
    /\ disk' = clearCache(disk)
    /\ UNCHANGED <<now, advances, rssFeeds, op, schedVars>>

\* time passes
AdvanceClock(delta) ==
    /\ op = NoOp
    /\ advances < MaxAdvance
    /\ advances' = advances + 1
    /\ now' = now + delta
    /\ UNCHANGED <<rssFeeds, disk, op, schedVars>>

\* the caller takes the result of the last call; the next call can start
Return ==
    /\ op # NoOp
    /\ op' = NoOp
    /\ UNCHANGED <<now, advances, rssFeeds, disk, schedVars>>

ClockSteps == {60 * 1000, (3 * 60 + 59) * 60 * 1000}

InitCommon ==
    /\ advances = 0
    /\ disk = NoFiles
    /\ isSchedulerActive = FALSE
    /\ tasks = <<>>
    /\ passes = <<>>
    /\ lastChange = "none"
    /\ sched = NoOp

-----------------------------------------------------------------------------
(* Specifications. *)

\* search over the configured feeds, with the cache directory open to
\* foreign writes and to clearing
InitSearch ==
    /\ InitCommon
    /\ now = 0
    /\ rssFeeds = SubSeq(AllFeeds, 1, NumSearchFeeds)
    /\ op = NoOp

NextSearch ==
    \/ \E q \in Queries, l \in SearchLimits : Search(q, l)
    \/ \E J \in JobSeqs : Deduplicate(J)
    \/ \E f \in Feeds, k \in ForeignKinds : ForeignWrite(f, k)
    \/ ClearCache
    \/ Return

SpecSearch == InitSearch /\ [][NextSearch]_vars

\* the feed cache under a running clock
InitCache ==
    /\ InitCommon
    /\ now = 0
    /\ rssFeeds = SubSeq(AllFeeds, 1, NumSearchFeeds)
    /\ op = NoOp

NextCache ==
    \/ \E f \in Feeds : Get(f)
    \/ \E delta \in ClockSteps : AdvanceClock(delta)
    \/ \E f \in Feeds, k \in ForeignKinds : ForeignWrite(f, k)
    \/ ClearCache
    \/ Return

SpecCache == InitCache /\ [][NextCache]_vars

\* deduplicateJobs as a pure function: Init draws the input, the action applies it
InitDedup ==
    /\ InitCommon
    /\ now = 0
    /\ rssFeeds = SubSeq(AllFeeds, 1, NumSearchFeeds)
    /\ op \in {[kind |-> "input", jobs |-> J] : J \in JobSeqs}

DeduplicateInput ==
    /\ op.kind = "input"
    /\ Deduplicate(op.jobs)

NextDedup == DeduplicateInput

SpecDedup == InitDedup /\ [][NextDedup]_vars


\* the cache under feed lists of two URLs: getCacheFilename takes any string
UrlChars == {"a", "?", ">"}

FeedUrls == {<<"f",".","i","o","/">> \o tail : tail \in UNION {[1..n -> UrlChars] : n \in 0..MaxUrlTail}}

InitKeys ==
    /\ InitCommon
    /\ now = 0
    /\ rssFeeds \in {pair \in FeedUrls \X FeedUrls : pair[1] # pair[2]}
    /\ op = NoOp

NextKeys ==
    \/ \E f \in Feeds : Get(f)
    \/ Return

SpecKeys == InitKeys /\ [][NextKeys]_vars
-----------------------------------------------------------------------------
(* feed-scheduler.ts.                                                      *)
(* A pass is one execution of refreshAllFeeds:                             *)
(*   [origin, start, i, calls, refreshed, failed, errors, done]            *)
(* i, refreshed and failed are the function's locals; calls holds the      *)
(* promises of the current batch, one per feed: "fetching" while its       *)
(* axios.get is in flight, then "fulfilled" or "rejected"; how tells what  *)
(* the call did.  errors counts the calls of finished batches whose fetch  *)
(* or parse failed.  The cache look-ups of a batch are taken when the      *)
(* batch starts.  Fetches, cache reads and cache writes may fail for the   *)
(* feeds of UnreliableFeeds only.                                          *)

batchSize == 5

\* axios.get(feedUrl, {timeout: 8000})
FetchTimeout == 8000

\* rssFeeds.slice(i, i + batchSize)
batchOf(feeds, i) == SubSeq(feeds, i + 1, Min(i + batchSize, Len(feeds)))

\* batch.map(feedUrl => fetchFeedWithCache(feedUrl)) up to the network request:
\* a call served from the cache is fulfilled, the others are in flight
startCalls(d, t, batch, io) ==
    [k \in 1..Len(batch) |->
        IF loadFromCache(d, t, batch[k], io[k]) # RetNull
        THEN [feed |-> batch[k], stage |-> "fulfilled", how |-> "cached"]
        ELSE [feed |-> batch[k], stage |-> "fetching", how |-> "pending"]]

\* the feeds whose server or cache file may fail during a pass
UnreliableFeeds == {AllFeeds[3]}

\* the cache I/O outcomes a batch may meet
BatchIo(d, batch) ==
    {io \in [1..Len(batch) -> BOOLEAN] :
        \A k \in 1..Len(batch) :
            io[k] \in (IF batch[k] \in UnreliableFeeds THEN IoChoices(d, batch[k]) ELSE {TRUE})}

\* what the server of a feed may answer, and whether the cache write succeeds
SchedAnswers(feedUrl) ==
    IF feedUrl \in UnreliableFeeds THEN FetchAnswers(feedUrl)
    ELSE {a \in FetchAnswers(feedUrl) : a.ok}

SchedWrites(feedUrl) == IF feedUrl \in UnreliableFeeds THEN BOOLEAN ELSE {TRUE}

\* refreshAllFeeds() up to its first await
newPass(feeds, d, t, origin, io) ==
    [origin |-> origin, start |-> t, i |-> 0,
     calls |-> startCalls(d, t, batchOf(feeds, 0), io),
     refreshed |-> 0, failed |-> 0, errors |-> 0, done |-> FALSE]

\* a call's promise after its fetch: fetchFeedWithCache catches every error,
\* so the promise is fulfilled whatever happened
settledCall(call, r) ==
    [feed |-> call.feed, stage |-> "fulfilled",
     how |-> IF r.failed THEN "failed" ELSE IF r.wrote THEN "saved" ELSE "unsaved"]

\* the calls of a batch in a given stage, and those that ended a given way
CountStage(calls, stage) == Cardinality({k \in 1..Len(calls) : calls[k].stage = stage})

CountHow(calls, how) == Cardinality({k \in 1..Len(calls) : calls[k].how = how})

\* refreshAllFeeds giving up at the first batch that holds a failed fetch
afterBatchStopsOnFailure(feeds, d, t, pass, io) ==
    LET refreshed == pass.refreshed + CountStage(pass.calls, "fulfilled")
        failed    == pass.failed + CountStage(pass.calls, "rejected")
        errors    == pass.errors + CountHow(pass.calls, "failed")
        i         == pass.i + batchSize
        goOn      == i < Len(feeds) /\ CountHow(pass.calls, "failed") = 0
    IN  [origin |-> pass.origin, start |-> pass.start, i |-> i,
         calls |-> IF goOn THEN startCalls(d, t, batchOf(feeds, i), io) ELSE <<>>,
         refreshed |-> refreshed, failed |-> failed, errors |-> errors,
         done |-> ~goOn]

\* lines 49-57 and the loop header: count the settled batch, then start the
\* next batch or return {refreshed, failed}
afterBatch(feeds, d, t, pass, io) ==
    LET refreshed == pass.refreshed + CountStage(pass.calls, "fulfilled")
        failed    == pass.failed + CountStage(pass.calls, "rejected")
        errors    == pass.errors + CountHow(pass.calls, "failed")
        i         == pass.i + batchSize
    IN  [origin |-> pass.origin, start |-> pass.start, i |-> i,
         calls |-> IF i < Len(feeds) THEN startCalls(d, t, batchOf(feeds, i), io) ELSE <<>>,
         refreshed |-> refreshed, failed |-> failed, errors |-> errors,
         done |-> ~(i < Len(feeds))]

\* the scheduler's own fetches that are in flight
RECURSIVE InFlightOf(_)
InFlightOf(ps) ==
    IF ps = <<>> THEN 0
    ELSE CountStage(Head(ps).calls, "fetching") + InFlightOf(Tail(ps))

InFlight == InFlightOf(passes)

AnyFetching == \E p \in 1..Len(passes) : \E k \in 1..Len(passes[p].calls) :
                   passes[p].calls[k].stage \in {"fetching", "saving"}

RunningTasks == {k \in 1..Len(tasks) : tasks[k].status = "running"}

\* isSchedulerRunning()
isSchedulerRunning == isSchedulerActive

\* the passes a behaviour may start
PassLimit == IF Len(rssFeeds) > batchSize THEN MaxPasses ELSE MaxShortPasses

\* refreshAllFeeds() is called
LaunchPass(origin) ==
    /\ Len(passes) < PassLimit
    /\ \E io \in BatchIo(disk, batchOf(rssFeeds, 0)) :
          passes' = Append(passes, newPass(rssFeeds, disk, now, origin, io))

\* startFeedScheduler without the test of isSchedulerActive
startFeedSchedulerUnguarded(intervalMinutes) ==
    /\ tasks' = Append(tasks, [status |-> "running", interval |-> intervalMinutes,
                               fired |-> FALSE])
    /\ isSchedulerActive' = TRUE
    /\ LaunchPass("initial")
    /\ lastChange' = "start"
    /\ sched' = [kind |-> "start", wasActive |-> isSchedulerActive]
    /\ UNCHANGED <<now, advances, rssFeeds, disk, op>>

\* startFeedScheduler without the initial refresh of line 29
startFeedSchedulerNoInitialPass(intervalMinutes) ==
    /\ IF isSchedulerActive
       THEN /\ sched' = [kind |-> "start", wasActive |-> TRUE]
            /\ UNCHANGED <<isSchedulerActive, tasks, lastChange>>
       ELSE /\ tasks' = Append(tasks, [status |-> "running", interval |-> intervalMinutes,
                                       fired |-> FALSE])
            /\ isSchedulerActive' = TRUE
            /\ lastChange' = "start"
            /\ sched' = [kind |-> "start", wasActive |-> FALSE]
    /\ UNCHANGED <<now, advances, rssFeeds, disk, op, passes>>

\* startFeedScheduler(intervalMinutes)
startFeedScheduler(intervalMinutes) ==
    /\ IF isSchedulerActive
       THEN /\ sched' = [kind |-> "start", wasActive |-> TRUE]
            /\ UNCHANGED <<isSchedulerActive, tasks, passes, lastChange>>
       ELSE /\ tasks' = Append(tasks, [status |-> "running", interval |-> intervalMinutes,
                                       fired |-> FALSE])
            /\ isSchedulerActive' = TRUE
            /\ LaunchPass("initial")
            /\ lastChange' = "start"
            /\ sched' = [kind |-> "start", wasActive |-> FALSE]
    /\ UNCHANGED <<now, advances, rssFeeds, disk, op>>

\* stopFeedScheduler clearing the flag and leaving the cron tasks running
stopFeedSchedulerFlagOnly ==
    /\ IF isSchedulerActive
       THEN /\ isSchedulerActive' = FALSE
            /\ lastChange' = "stop"
            /\ sched' = [kind |-> "stop", wasActive |-> TRUE]
            /\ UNCHANGED tasks
       ELSE /\ sched' = [kind |-> "stop", wasActive |-> FALSE]
            /\ UNCHANGED <<isSchedulerActive, tasks, lastChange>>
    /\ UNCHANGED <<now, advances, rssFeeds, disk, op, passes>>

\* stopFeedScheduler()
stopFeedScheduler ==
    /\ IF isSchedulerActive
       THEN /\ tasks' = [k \in 1..Len(tasks) |->
                            [tasks[k] EXCEPT !.status = "stopped"]]
            /\ isSchedulerActive' = FALSE
            /\ lastChange' = "stop"
            /\ sched' = [kind |-> "stop", wasActive |-> TRUE]
       ELSE /\ sched' = [kind |-> "stop", wasActive |-> FALSE]
            /\ UNCHANGED <<isSchedulerActive, tasks, lastChange>>
    /\ UNCHANGED <<now, advances, rssFeeds, disk, op, passes>>

\* the minute of the hour of the time t (ms)
minuteOfHour(t) == (t \div (60 * 1000)) % 60

\* the cron expression of line 20, "*/N * * * *": second 0 of the minutes
\* 0, N, 2N, ... below 60 of every hour
cronMatches(t, intervalMinutes) ==
    /\ t % (60 * 1000) = 0
    /\ minuteOfHour(t) % intervalMinutes = 0

\* the first time after t that the expression matches
nextFiring(t, intervalMinutes) ==
    LET first == (t \div (60 * 1000) + 1) * 60 * 1000
        k == CHOOSE k \in 0..59 :
                /\ cronMatches(first + k * 60 * 1000, intervalMinutes)
                /\ \A j \in 0..(k - 1) : ~cronMatches(first + j * 60 * 1000, intervalMinutes)
    IN  first + k * 60 * 1000

\* the cron task k fires: lines 22-24.  A request does not outlive its
\* timeout, so a firing later than that finds no call of an earlier pass
\* unsettled.
Tick(k) ==
    /\ tasks[k].status = "running"
    /\ now' = nextFiring(now, tasks[k].interval)
    /\ now' - now > FetchTimeout => ~AnyFetching
    /\ tasks' = [tasks EXCEPT ![k].fired = TRUE]
    /\ Len(passes) < PassLimit
    /\ \E io \in BatchIo(disk, batchOf(rssFeeds, 0)) :
          passes' = Append(passes, newPass(rssFeeds, disk, now', "tick", io))
    /\ UNCHANGED <<advances, rssFeeds, disk, op, isSchedulerActive, lastChange, sched>>

\* the request of call k of pass p completes: lines 109-131 of feed-cache.ts
CallSettles(p, k) ==
    /\ passes[p].calls[k].stage = "fetching"
    /\ \E r \in {fetchFresh(disk, now, passes[p].calls[k].feed, a, w) :
                    a \in SchedAnswers(passes[p].calls[k].feed),
                    w \in SchedWrites(passes[p].calls[k].feed)} :
          /\ disk' = r.disk
          /\ passes' = [passes EXCEPT ![p].calls[k] = settledCall(@, r)]
    /\ UNCHANGED <<now, advances, rssFeeds, op,
                   isSchedulerActive, tasks, lastChange, sched>>

\* Promise.allSettled of pass p resolves
BatchSettled(p) ==
    /\ ~passes[p].done
    /\ \A k \in 1..Len(passes[p].calls) :
          passes[p].calls[k].stage \in {"fulfilled", "rejected"}
    /\ \E io \in BatchIo(disk, batchOf(rssFeeds, passes[p].i + batchSize)) :
          passes' = [passes EXCEPT ![p] = afterBatch(rssFeeds, disk, now, @, io)]
    /\ UNCHANGED <<now, advances, rssFeeds, disk, op,
                   isSchedulerActive, tasks, lastChange, sched>>

\* index.ts starts the scheduler with startFeedScheduler(30)
IntervalChoices == {30}

\* the server starts five seconds before a half hour
StartTime == 30 * 60 * 1000 - 5000

InitSched ==
    /\ InitCommon
    /\ now = StartTime
    /\ rssFeeds = SubSeq(AllFeeds, 3, 2 + NumSchedFeeds)
    /\ op = NoOp

NextSched ==
    \/ \E m \in IntervalChoices : startFeedScheduler(m)
    \/ stopFeedScheduler
    \/ \E k \in 1..Len(tasks) : Tick(k)
    \/ \E p \in 1..Len(passes) : \E k \in 1..Len(passes[p].calls) : CallSettles(p, k)
    \/ \E p \in 1..Len(passes) : BatchSettled(p)

SpecSched == InitSched /\ [][NextSched]_vars

-----------------------------------------------------------------------------
(* Concurrent fetches of one feed.  saveToCache awaits fs.writeFile, which *)
(* is not atomic: it opens the file with flag 'w', which truncates it, and *)
(* then writes the text at the start of the file through its own handle.   *)
(* Other callbacks run between the two.  A call that has opened its file   *)
(* is [feed, stage |-> "saving", how |-> "opened", jobs, timestamp].       *)

\* the length of JSON.stringify(job, null, 2) inside the jobs array, without
\* escapes: the field texts, and their names, quotes, indentation and commas;
\* an undefined pubDate is left out, an ISO date has 24 characters
jobTextLength(job) ==
    96 + Len(job.title) + Len(job.link) + Len(job.description) + Len(job.source)
       + (IF job.pubDate = Undefined THEN 0 ELSE 45)

RECURSIVE jsonLength(_)
jsonLength(jobs) ==
    IF jobs = <<>> THEN 0 ELSE jobTextLength(Head(jobs)) + jsonLength(Tail(jobs))

\* the length of a cache file: an unparseable file without listings is the
\* empty file an open with flag 'w' leaves; the other files hold the text
\* of a record
textLength(file) ==
    IF ~file.parses /\ file.jobs = <<>> THEN 0 ELSE 66 + jsonLength(file.jobs)

\* the file after open(cacheFile, 'w')
TruncatedFile(t) == ForeignFile(t, "garbage")

\* the file after a handle writes the text of record at offset 0: text that
\* was written through another handle and reaches further stays behind the
\* record's text, and the whole is no JSON
writeAtStart(file, t, record) ==
    IF textLength(file) <= textLength(record) THEN record
    ELSE [mtime |-> t, parses |-> FALSE, shape |-> "list", jobs |-> file.jobs,
          timestamp |-> 0 - 1, feedUrl |-> <<>>]

\* the request of call k of pass p completes (feed-cache.ts lines 109-123) and
\* saveToCache opens the cache file (line 89), or the request fails (line 128)
CallOpens(p, k) ==
    /\ passes[p].calls[k].stage = "fetching"
    /\ \E a \in FetchAnswers(passes[p].calls[k].feed) :
          LET feedUrl == passes[p].calls[k].feed
          IN  IF ~a.ok \/ itemsThrow(a.items)
              THEN /\ disk' = disk
                   /\ passes' = [passes EXCEPT ![p].calls[k] =
                                    [feed |-> feedUrl, stage |-> "fulfilled", how |-> "failed"]]
              ELSE /\ disk' = WriteFile(disk, getCacheFilename(feedUrl), TruncatedFile(now))
                   /\ passes' = [passes EXCEPT ![p].calls[k] =
                                    [feed |-> feedUrl, stage |-> "saving", how |-> "opened",
                                     jobs |-> toCachedJobs(a.items, feedUrl),
                                     timestamp |-> now]]
    /\ UNCHANGED <<now, advances, rssFeeds, op,
                   isSchedulerActive, tasks, lastChange, sched>>

\* the write of call k of pass p completes and fetchFeedWithCache returns
\* (lines 89 and 127)
CallWrites(p, k) ==
    /\ passes[p].calls[k].stage = "saving"
    /\ LET call == passes[p].calls[k]
           cacheFile == getCacheFilename(call.feed)
           record == [CacheRecord(call.timestamp, call.feed, call.jobs)
                         EXCEPT !.mtime = now]
       IN  /\ disk' = WriteFile(disk, cacheFile,
                                IF FileExists(disk, cacheFile)
                                THEN writeAtStart(disk[cacheFile], now, record)
                                ELSE record)
           /\ passes' = [passes EXCEPT ![p].calls[k] =
                            [feed |-> call.feed, stage |-> "fulfilled", how |-> "saved",
                             jobs |-> call.jobs, timestamp |-> call.timestamp]]
    /\ UNCHANGED <<now, advances, rssFeeds, op,
                   isSchedulerActive, tasks, lastChange, sched>>

\* one feed, refreshed by the passes of the scheduler and read by queries
InitRace ==
    /\ InitCommon
    /\ now = StartTime
    /\ rssFeeds = SubSeq(AllFeeds, 1, 1)
    /\ op = NoOp

NextRace ==
    \/ \E m \in IntervalChoices : startFeedScheduler(m)
    \/ \E k \in 1..Len(tasks) : Tick(k)
    \/ \E p \in 1..Len(passes) : \E k \in 1..Len(passes[p].calls) : CallOpens(p, k)
    \/ \E p \in 1..Len(passes) : \E k \in 1..Len(passes[p].calls) : CallWrites(p, k)
    \/ \E p \in 1..Len(passes) : BatchSettled(p)
    \/ \E f \in Feeds : Get(f)
    \/ Return

SpecRace == InitRace /\ [][NextRace]_vars

-----------------------------------------------------------------------------
(* The timer under the intervals a caller may pass to startFeedScheduler.  *)

\* startFeedScheduler(intervalMinutes: number = 30)
TimerIntervals == {30, 45}

\* one feed with a reliable server
InitTimer ==
    /\ InitCommon
    /\ now = StartTime
    /\ rssFeeds = SubSeq(AllFeeds, 4, 4)
    /\ op = NoOp

NextTimer ==
    \/ \E m \in TimerIntervals : startFeedScheduler(m)
    \/ stopFeedScheduler
    \/ \E k \in 1..Len(tasks) : Tick(k)
    \/ \E p \in 1..Len(passes) : \E k \in 1..Len(passes[p].calls) : CallSettles(p, k)
    \/ \E p \in 1..Len(passes) : BatchSettled(p)

SpecTimer == InitTimer /\ [][NextTimer]_vars

-----------------------------------------------------------------------------
(* extractKeywords as a pure function: Init draws the input, the action    *)
(* applies it.                                                             *)

KeywordTokens ==
    { <<"t","h","e">>, <<"P","o","s","t","s">>, <<"t","i","e","s">>, <<"R","u","b","y">>, <<"C","+","+">>, <<"g","o">>, <<"F","l","u","t","t","e","r","!">>,
      <<"f","l","u","t","t","e","r">>, <<"e","n","g","i","n","e","e","r","s">> }

\* the inputs: up to MaxQueryWords tokens separated by single spaces
KeywordInputs ==
    {joinWords(ws) : ws \in UNION {[1..n -> KeywordTokens] : n \in 0..MaxQueryWords}}

\* a caller evaluates extractKeywords(input)
ExtractKeywords ==
    /\ op.kind = "text"
    /\ op' = [kind |-> "keywords", input |-> op.input,
              keywords |-> extractKeywords(op.input)]
    /\ UNCHANGED <<now, advances, rssFeeds, disk, schedVars>>

InitKeywords ==
    /\ InitCommon
    /\ now = 0
    /\ rssFeeds = SubSeq(AllFeeds, 1, NumSearchFeeds)
    /\ op \in {[kind |-> "text", input |-> input] : input \in KeywordInputs}

NextKeywords == ExtractKeywords

SpecKeywords == InitKeywords /\ [][NextKeywords]_vars

\* the timer when every request settles (it fails at its timeout at the
\* latest) and every settled batch is counted
SpecTimerFair ==
    /\ SpecTimer
    /\ WF_vars(\E p \in 1..Len(passes) : \E k \in 1..Len(passes[p].calls) : CallSettles(p, k))
    /\ WF_vars(\E p \in 1..Len(passes) : BatchSettled(p))
-----------------------------------------------------------------------------
(* Properties. *)

\* the listings a sequence of gets contributed: those of the feeds that
\* returned a list, in the order of the gets
RECURSIVE Contributions(_)
Contributions(gets) ==
    IF gets = <<>> THEN <<>>
    ELSE (IF Head(gets).ret.tag = "list" THEN Head(gets).ret.jobs ELSE <<>>)
             \o Contributions(Tail(gets))

DistinctLinks(jobs) ==
    \A i, j \in 1..Len(jobs) : linkKey(jobs[i]) = linkKey(jobs[j]) => i = j

\* position of the first job of J with link key k
FirstWithKey(J, k) ==
    CHOOSE i \in 1..Len(J) :
        linkKey(J[i]) = k /\ \A j \in 1..(i - 1) : linkKey(J[j]) # k

\* U is J with, for every link key, only its first job, in the order of J
FirstOccurrences(J, U) ==
    /\ DistinctLinks(U)
    /\ {linkKey(U[i]) : i \in 1..Len(U)} = {linkKey(J[i]) : i \in 1..Len(J)}
    /\ \A i \in 1..Len(U) : U[i] = J[FirstWithKey(J, linkKey(U[i]))]
    /\ \A i, j \in 1..Len(U) :
          i < j => FirstWithKey(J, linkKey(U[i])) < FirstWithKey(J, linkKey(U[j]))

FeedIndex(feedUrl) == CHOOSE i \in 1..Len(rssFeeds) : rssFeeds[i] = feedUrl

\* C1: a search whose query yields no keyword returns jobs = [] and total = 0
\* without consulting any feed: no get is made and the cache is left as it was.
C1_EmptyKeywordsShortCircuit ==
    [][(op = NoOp /\ op'.kind = "search" /\ Len(extractKeywords(op'.query)) = 0)
          => /\ ~op'.threw
             /\ op'.jobs = <<>>
             /\ op'.total = 0
             /\ op'.gets = <<>>
             /\ disk' = disk]_vars

\* a query of stopwords and punctuation only, asked while listings are cached
C1_Witness ==
    /\ op.kind = "search"
    /\ Len(op.query) > 0
    /\ Len(op.keywords) = 0
    /\ op.jobs = <<>> /\ op.total = 0
    /\ \E n \in DOMAIN disk : disk[n].parses /\ Len(disk[n].jobs) > 0

\* C2: search never raises an error: whatever each feed's get did, it returns
\* a result; a failing feed contributes nothing, the others their listings.
C2_SearchNeverThrows ==
    op.kind = "search" =>
        /\ ~op.threw
        /\ op.allJobs = Contributions(op.gets)
        /\ \A i \in 1..Len(op.gets) :
              op.gets[i].failed => op.gets[i].ret = RetList(<<>>)

\* C3: a get always returns a sequence of listings, and an empty one when
\* the fetch failed.
C3_GetReturnsListings ==
    op.kind = "get" =>
        /\ op.ret.tag = "list"
        /\ \A i \in 1..Len(op.ret.jobs) : HasStringLink(op.ret.jobs[i])
        /\ op.failed => op.ret.jobs = <<>>

\* the entry a get found was written by saveToCache
FoundRecord == op.before.exists /\ op.before.file.parses /\ op.before.file.timestamp >= 0

AgeFound == op.at - op.before.file.mtime

\* C4: an entry written at T is served without a fetch at every time before
\* T + 4h (unless reading it fails), a get after T + 4h fetches, and no get
\* serves an entry older than the TTL.
C4_TtlWindow ==
    op.kind = "get" =>
        /\ (FoundRecord /\ AgeFound < CACHE_TTL /\ ~op.ioError)
              => (~op.fetched /\ op.ret = RetList(op.before.file.jobs))
        /\ (op.before.exists /\ AgeFound > CACHE_TTL) => op.fetched
        /\ ~op.fetched => (op.before.exists /\ AgeFound <= CACHE_TTL)

\* an entry served at T + 3h59m
C4_Witness ==
    /\ op.kind = "get"
    /\ FoundRecord
    /\ AgeFound = (3 * 60 + 59) * 60 * 1000
    /\ ~op.fetched
    /\ Len(op.ret.jobs) > 0

\* the cache entry of a feed
EntryOf(feedUrl) == disk[getCacheFilename(feedUrl)]

\* C5: a refresh pass refetches every feed whatever the age of its cache
\* entry: once a feed's refresh has succeeded within a pass, the feed's entry
\* carries a fetch time no earlier than the start of that pass.
C5_PassForcesRefetch ==
    \A p \in 1..Len(passes) : \A k \in 1..Len(passes[p].calls) :
        LET call == passes[p].calls[k]
        IN  (call.stage = "fulfilled" /\ call.how \notin {"failed", "unsaved"})
                => /\ FileExists(disk, getCacheFilename(call.feed))
                   /\ EntryOf(call.feed).timestamp >= passes[p].start

\* C6: a finished pass reports as failed the number of feeds whose fetch or
\* parse failed, and as refreshed the number of the others.
C6_FailedCountsFailures ==
    \A p \in 1..Len(passes) :
        passes[p].done =>
            /\ passes[p].failed = passes[p].errors
            /\ passes[p].refreshed = Len(rssFeeds) - passes[p].errors

\* C7: start on a running scheduler and stop on an idle one change nothing;
\* at most one cron task is running, and isSchedulerRunning() holds exactly
\* when the last call that changed the state was a start.
C7_StartStopIdempotent ==
    /\ [](/\ Cardinality(RunningTasks) <= 1
          /\ isSchedulerRunning <=> (lastChange = "start")
          /\ isSchedulerRunning <=> (RunningTasks # {}))
    /\ [][/\ (sched' # sched /\ sched'.kind = "start" /\ isSchedulerActive)
                => (sched'.wasActive /\ isSchedulerActive'
                      /\ UNCHANGED <<tasks, passes, lastChange, disk>>)
          /\ (sched' # sched /\ sched'.kind = "stop" /\ ~isSchedulerActive)
                => (~sched'.wasActive /\ ~isSchedulerActive'
                      /\ UNCHANGED <<tasks, passes, lastChange, disk>>)]_vars

\* start, stop, start, and a further start on the running scheduler
C7_Witness ==
    /\ sched = [kind |-> "start", wasActive |-> TRUE]
    /\ Len(tasks) = 2
    /\ tasks[1].status = "stopped" /\ tasks[2].status = "running"
    /\ Len(passes) = 2
    /\ isSchedulerRunning

\* C8: the scheduler's fetches in flight never exceed the batch size.
C8_InFlightWithinBatch ==
    InFlight <= batchSize

\* C9: deduplicateJobs is idempotent.
C9_DedupIdempotent ==
    op.kind = "dedup" => op.twice = op.once

\* an input with duplicates and two kept listings
C9_Witness ==
    /\ op.kind = "dedup"
    /\ Len(op.once) < Len(op.input)
    /\ Len(op.once) >= 2

\* C10: deduplication keeps exactly the first listing of every normalized
\* link, in input order; in a search result links are pairwise distinct and
\* a listing several feeds carry comes from the first of them.
C10_FirstOccurrenceWins ==
    /\ op.kind = "dedup" => FirstOccurrences(op.input, op.once)
    /\ (op.kind = "search" /\ ~op.threw) =>
          /\ DistinctLinks(op.jobs)
          /\ \A i \in 1..Len(op.jobs) : \A g \in 1..Len(op.gets) :
                (/\ op.gets[g].ret.tag = "list"
                 /\ \E k \in 1..Len(op.gets[g].ret.jobs) :
                       linkKey(op.gets[g].ret.jobs[k]) = linkKey(op.jobs[i]))
                  => FeedIndex(op.jobs[i].source) <= FeedIndex(op.gets[g].feed)

\* both feeds carry the posting; the result lists the first feed's copy
C10_Witness ==
    /\ op.kind = "search" /\ ~op.threw
    /\ \E i \in 1..Len(op.jobs) :
          /\ op.jobs[i].source = rssFeeds[1]
          /\ \E k \in 1..Len(op.allJobs) :
                /\ op.allJobs[k].source = rssFeeds[2]
                /\ linkKey(op.allJobs[k]) = linkKey(op.jobs[i])
                /\ op.allJobs[k].link # op.jobs[i].link


\* some keyword is a substring of the lowercased title or description
KeywordOccurs(job, keywords) ==
    \E i \in 1..Len(keywords) :
        \/ includes(lowerOrEmpty(job.title), keywords[i])
        \/ includes(lowerOrEmpty(job.description), keywords[i])

\* C11: search returns only listings in which a keyword occurs, and before
\* truncation it keeps every deduplicated listing in which one occurs.
C11_KeywordFilter ==
    (op.kind = "search" /\ ~op.threw) =>
        /\ \A i \in 1..Len(op.jobs) : KeywordOccurs(op.jobs[i], op.keywords)
        /\ \A i \in 1..Len(op.ranked) : KeywordOccurs(op.ranked[i], op.keywords)
        /\ LET U == deduplicateJobs(op.allJobs)
           IN  \A i \in 1..Len(U) :
                   KeywordOccurs(U[i], op.keywords) => U[i] \in Range(op.ranked)

\* the query "Flutter Jobs!" over a Flutter listing and another one
C11_Witness ==
    /\ op.kind = "search" /\ ~op.threw
    /\ op.query = <<"F","l","u","t","t","e","r"," ","J","o","b","s","!">>
    /\ op.limit = 10
    /\ op.total = 1
    /\ Len(deduplicateJobs(op.allJobs)) = 2
    /\ includes(toLowerCase(op.jobs[1].title), <<"f","l","u","t","t","e","r">>)

\* the keywords found in a text, each counted once
KeywordsIn(text, keywords) ==
    Cardinality({k \in Range(keywords) : includes(lowerOrEmpty(text), k)})

\* C12: relevanceScore is twice the number of distinct keywords in the
\* lowercased title plus the number of distinct keywords in the lowercased
\* description.
C12_RelevanceScore ==
    (op.kind = "search" /\ ~op.threw) =>
        /\ Len(op.scores) = Len(op.ranked)
        /\ \A i \in 1..Len(op.ranked) :
              op.scores[i] = 2 * KeywordsIn(op.ranked[i].title, op.keywords)
                               + KeywordsIn(op.ranked[i].description, op.keywords)

\* one keyword, found once in the title and twice in the description: 3;
\* in another listing only in the description: 1
C12_Witness ==
    /\ op.kind = "search" /\ ~op.threw
    /\ op.keywords = <<<<"f","l","u","t","t","e","r">>>>
    /\ \E i, j \in 1..Len(op.ranked) :
          /\ op.ranked[i].description = <<"f","l","u","t","t","e","r",","," ","f","l","u","t","t","e","r">>
          /\ op.scores[i] = 3
          /\ op.scores[j] = 1

\* the score of a listing, counted from its texts
ScoreOf(job, keywords) ==
    2 * KeywordsIn(job.title, keywords) + KeywordsIn(job.description, keywords)

HasDate(job) == ~Falsy(job.pubDate)

\* C13: results are ordered by score, highest first; at equal score the later
\* pubDate comes first, and a listing without a date comes after every
\* listing that has one.
C13_OrderByScoreThenDate ==
    (op.kind = "search" /\ ~op.threw) =>
        \A i, j \in 1..Len(op.jobs) :
            i < j =>
                /\ ScoreOf(op.jobs[i], op.keywords) >= ScoreOf(op.jobs[j], op.keywords)
                /\ ScoreOf(op.jobs[i], op.keywords) = ScoreOf(op.jobs[j], op.keywords) =>
                      /\ (HasDate(op.jobs[i]) /\ HasDate(op.jobs[j]))
                            => getTime(op.jobs[i].pubDate) >= getTime(op.jobs[j].pubDate)
                      /\ ~(~HasDate(op.jobs[i]) /\ HasDate(op.jobs[j]))

\* C14: search returns at most max(limit, 0) jobs, and they are the first
\* ones of the sorted matches.
C14_AtMostLimit ==
    (op.kind = "search" /\ ~op.threw) =>
        /\ Len(op.jobs) <= Max(op.limit, 0)
        /\ op.total = Len(op.jobs)
        /\ op.jobs = SubSeq(op.ranked, 1, Len(op.jobs))

\* C15: the sequence given to deduplication is the feeds' results in the
\* configured order of the feeds, one lookup per feed, and the ranking is
\* determined by these results.
C15_ConfiguredFeedOrder ==
    (op.kind = "search" /\ Len(op.keywords) > 0) =>
        /\ Len(op.gets) = Len(rssFeeds)
        /\ \A i \in 1..Len(rssFeeds) : op.gets[i].feed = rssFeeds[i]
        /\ op.allJobs = Contributions(op.gets)
        /\ ~op.threw => op.ranked = sortedMatches(Contributions(op.gets), op.keywords)

\* both feeds contribute, and the ranking puts a listing of the second feed
\* before one of the first
C15_Witness ==
    /\ op.kind = "search" /\ ~op.threw
    /\ Len(op.gets) = 2
    /\ Len(op.gets[1].ret.jobs) > 0 /\ Len(op.gets[2].ret.jobs) > 0
    /\ Len(op.jobs) >= 2
    /\ op.jobs[1].source = rssFeeds[2]
    /\ op.jobs[2].source = rssFeeds[1]

\* the listings a successful fetch of the feed can yield
FreshListings(feedUrl) ==
    {toCachedJobs(b, feedUrl) : b \in {x \in RemoteBodies(feedUrl) : ~itemsThrow(x)}}

\* C16: when fetch and parse succeed, get returns the parsed listings whether
\* or not the cache write succeeds.
C16_WriteFailureKeepsListings ==
    (op.kind = "get" /\ op.fetched /\ ~op.failed) =>
        /\ op.ret.tag = "list"
        /\ op.ret.jobs \in FreshListings(op.feed)

\* a get whose write failed and which returned listings
C16_Witness ==
    /\ op.kind = "get"
    /\ op.fetched /\ ~op.failed /\ ~op.wrote
    /\ Len(op.ret.jobs) > 0
    /\ ~FileExists(disk, getCacheFilename(op.feed))

\* C17: when the cache file is missing, unreadable or no cache record, get
\* fetches the feed and returns what the fetch gave, never the file's content.
C17_ReadFailureIsMiss ==
    (op.kind = "get" /\ (~op.before.exists \/ op.ioError \/ ~FoundRecord)) =>
        /\ op.fetched
        /\ op.ret.tag = "list"
        /\ IF op.failed THEN op.ret.jobs = <<>>
           ELSE op.ret.jobs \in FreshListings(op.feed)

\* C18: distinct feed URLs have distinct cache filenames, so a get returns
\* only listings fetched from its own feed URL.
C18_CacheKeysDistinct ==
    /\ \A f, g \in Feeds : f # g => getCacheFilename(f) # getCacheFilename(g)
    /\ (op.kind = "get" /\ op.ret.tag = "list") =>
          \A i \in 1..Len(op.ret.jobs) : op.ret.jobs[i].source = op.feed

\* C19: a start that takes the scheduler from idle to running launches
\* exactly one refresh pass at once, before the cron task has fired, and no
\* step of a pass, failing or not, changes whether the scheduler is running.
C19_StartLaunchesOnePass ==
    [][/\ (~isSchedulerActive /\ isSchedulerActive') =>
             /\ Len(passes') = Len(passes) + 1
             /\ SubSeq(passes', 1, Len(passes)) = passes
             /\ passes'[Len(passes')].origin = "initial"
             /\ passes'[Len(passes')].start = now
             /\ now' = now
             /\ ~tasks'[Len(tasks')].fired
       /\ (passes' # passes /\ Len(passes') = Len(passes)) =>
             isSchedulerActive' = isSchedulerActive]_vars

\* the start-up pass has ended with a failed feed; the scheduler is running
\* and its task has not fired yet
C19_Witness ==
    /\ isSchedulerActive
    /\ Len(tasks) = 1 /\ ~tasks[1].fired
    /\ Len(passes) = 1
    /\ passes[1].origin = "initial"
    /\ passes[1].done
    /\ passes[1].errors > 0

\* C20: a readable entry is refetched exactly when its age exceeds the TTL; an
\* entry whose age equals the TTL is still served.
C20_ServedAtExactTtl ==
    (op.kind = "get" /\ FoundRecord /\ ~op.ioError) =>
        /\ op.fetched <=> (AgeFound > CACHE_TTL)
        /\ AgeFound = CACHE_TTL => op.ret = RetList(op.before.file.jobs)

\* C21: a get that finds a readable entry younger than the TTL is served from
\* the cache: it returns the entry's listings as they are stored, fetches
\* nothing and leaves the cache directory as it was; the entry holds what the
\* last fetch of that feed that saved its result returned, because a get that
\* saves writes exactly the listings it returns under its own feed URL, and a
\* get that does not save leaves every file alone.
C21_CacheHitVerbatim ==
    [][(op = NoOp /\ op'.kind = "get") =>
          /\ (FoundRecord' /\ AgeFound' < CACHE_TTL /\ ~op'.ioError) =>
                /\ ~op'.fetched /\ ~op'.wrote
                /\ op'.ret = RetList(op'.before.file.jobs)
                /\ op'.before.file.feedUrl = op'.feed
                /\ disk' = disk
          /\ (~op'.fetched /\ FoundRecord') =>
                /\ op'.ret = RetList(op'.before.file.jobs)
                /\ disk' = disk
          /\ op'.wrote =>
                disk' = WriteFile(disk, getCacheFilename(op'.feed),
                                  CacheRecord(now, op'.feed, op'.ret.jobs))
          /\ ~op'.wrote => disk' = disk]_vars

\* a get served two listings, in their stored order, from an entry written a
\* minute before by a fetch of the same feed
C21_Witness ==
    /\ op.kind = "get"
    /\ ~op.fetched
    /\ FoundRecord
    /\ AgeFound = 60 * 1000
    /\ op.before.file.feedUrl = op.feed
    /\ op.ret = RetList(toCachedJobs(<<ItemFlutter, ItemBare>>, op.feed))
    /\ disk[getCacheFilename(op.feed)] = op.before.file

\* the feeds of the calls of a batch, in the order of the calls
FeedsOf(calls) == [k \in 1..Len(calls) |-> calls[k].feed]

\* C22: a pass calls the fetcher once for every configured feed, in batches
\* of at most 5 taken in configured order; a batch starts only when every
\* call of the batch before has settled; a failed fetch stops neither its
\* batch nor the later ones; and refreshed + failed counts the feeds of the
\* finished batches, all configured feeds when the pass is done.
C22_EveryFeedOncePerPass ==
    /\ [](\A p \in 1..Len(passes) :
            LET pass == passes[p]
            IN  /\ pass.i % batchSize = 0
                /\ Len(pass.calls) <= batchSize
                /\ ~pass.done => /\ pass.i < Len(rssFeeds)
                                 /\ FeedsOf(pass.calls) = batchOf(rssFeeds, pass.i)
                /\ pass.refreshed + pass.failed = Min(pass.i, Len(rssFeeds))
                /\ pass.done => /\ pass.i >= Len(rssFeeds)
                                /\ pass.calls = <<>>
                                /\ pass.refreshed + pass.failed = Len(rssFeeds))
    /\ [][/\ \A p \in 1..Len(passes) :
               /\ passes'[p].i # passes[p].i =>
                     /\ passes'[p].i = passes[p].i + batchSize
                     /\ CountStage(passes[p].calls, "fetching") = 0
               /\ passes'[p].i = passes[p].i =>
                     /\ FeedsOf(passes'[p].calls) = FeedsOf(passes[p].calls)
                     /\ \A k \in 1..Len(passes[p].calls) :
                           passes[p].calls[k].stage # "fetching" =>
                               passes'[p].calls[k] = passes[p].calls[k]
          /\ \A p \in (1..Len(passes')) \ (1..Len(passes)) : passes'[p].i = 0]_vars

\* a timer-triggered pass is done over all six feeds although a fetch of its
\* first batch failed
C22_Witness ==
    \E p \in 1..Len(passes) :
        /\ passes[p].origin = "tick"
        /\ passes[p].done
        /\ passes[p].errors > 0
        /\ passes[p].i = 2 * batchSize
        /\ passes[p].refreshed + passes[p].failed = Len(rssFeeds)
        /\ Len(rssFeeds) > batchSize

\* the calls of the scheduler's passes that have opened the cache file of
\* the feed and not yet written it
SavingCalls(ps, feedUrl) ==
    {c \in {<<p, k>> : p \in 1..Len(ps), k \in 1..batchSize} :
        /\ c[2] <= Len(ps[c[1]].calls)
        /\ ps[c[1]].calls[c[2]].feed = feedUrl
        /\ ps[c[1]].calls[c[2]].stage = "saving"}

\* C23: when a fetch of a feed finishes its cache write and no other write of
\* that file is in progress, the file holds exactly the complete entry of
\* that write; and a get, whatever it finds in the file, returns the complete
\* listings of an entry or of a live fetch (nothing when that fetch fails).
C23_LastWriterWins ==
    /\ [][\A p \in 1..Len(passes) : \A k \in 1..Len(passes[p].calls) :
            (/\ passes[p].calls[k].stage = "saving"
             /\ passes'[p].calls[k].stage = "fulfilled"
             /\ SavingCalls(passes', passes[p].calls[k].feed) = {})
                => LET call == passes[p].calls[k]
                       file == disk'[getCacheFilename(call.feed)]
                   IN  /\ file.parses
                       /\ file.shape = "list"
                       /\ file.jobs = call.jobs
                       /\ file.feedUrl = call.feed
                       /\ file.timestamp = call.timestamp]_vars
    /\ [](op.kind = "get" =>
            /\ op.ret.tag = "list"
            /\ op.ret.jobs = <<>> \/ op.ret.jobs \in FreshListings(op.feed))

\* C24: whatever interval the scheduler was started with, a firing of its
\* cron task comes intervalMinutes minutes after the task's firing before.
\* (The clock moves only when a task fires and at most one task is running,
\* so a running task that has fired fired last at the present time.)
C24_TicksEveryInterval ==
    [][\A k \in 1..Len(tasks) :
          (tasks[k].status = "running" /\ tasks[k].fired /\ tasks'[k].fired /\ now' # now)
              => now' - now = tasks[k].interval * 60 * 1000]_vars

\* C25: extractKeywords returns a list without duplicates, none of whose
\* elements is a stopword or has two characters or fewer.
C25_KeywordsClean ==
    op.kind = "keywords" =>
        /\ \A i, j \in 1..Len(op.keywords) : op.keywords[i] = op.keywords[j] => i = j
        /\ \A i \in 1..Len(op.keywords) :
              /\ op.keywords[i] \notin stopwords
              /\ Len(op.keywords[i]) > 2

\* C26: in every search result total is the number of jobs returned, the
\* count after the truncation to limit, whatever number of listings matched.
C26_TotalIsReturnedCount ==
    (op.kind = "search" /\ ~op.threw) => op.total = Len(op.jobs)

\* a search with limit 1 that two listings matched
C26_Witness ==
    /\ op.kind = "search"
    /\ ~op.threw
    /\ op.limit = 1
    /\ Len(op.ranked) = 2
    /\ Len(op.jobs) = 1
    /\ op.total = 1

\* the results a get of the feed can have on disk d at time t when the cache
\* I/O succeeds
NextGets(d, t, feedUrl) == fetchFeedWithCacheIO(d, t, feedUrl, TRUE)

\* C27: a get whose fetch or parse fails leaves every cache file as it was,
\* content and modification time, so that a get that found no servable entry
\* and failed is followed by a get that fetches again; the cache changes only
\* when a fetch succeeds and saves, and the entry saved, be it of zero
\* listings, is then served up to the end of the TTL.
C27_FailureLeavesCache ==
    [][(op = NoOp /\ op'.kind = "get") =>
          /\ op'.failed =>
                /\ disk' = disk
                /\ ~op'.ioError => \A r \in NextGets(disk', now, op'.feed) : r.fetched
          /\ disk' # disk => (op'.fetched /\ ~op'.failed /\ op'.wrote)
          /\ op'.wrote =>
                /\ ~op'.failed
                /\ disk' = WriteFile(disk, getCacheFilename(op'.feed),
                                     CacheRecord(now, op'.feed, op'.ret.jobs))
                /\ \A t \in {now, now + CACHE_TTL - 1} :
                      \A r \in NextGets(disk', t, op'.feed) :
                          ~r.fetched /\ r.ret = op'.ret]_vars

\* a get found the expired entry of a fetch that had yielded zero items, its
\* fetch failed, and the file is as it was
C27_Witness ==
    /\ op.kind = "get"
    /\ op.failed
    /\ FoundRecord
    /\ op.before.file.jobs = <<>>
    /\ AgeFound >= CACHE_TTL
    /\ disk[getCacheFilename(op.feed)] = op.before.file

\* the positions of the listings whose link is empty or blank
BlankKeyed(jobs) == {i \in 1..Len(jobs) : linkKey(jobs[i]) = <<>>}

\* C28: an item without URL is stored with the empty link, and
\* deduplication keeps of the listings with an empty or blank link the first
\* one of its input and no other, whatever jobs the others are.
C28_UrlLessShareOneKey ==
    /\ \A item \in {ItemBare, ItemNoUrl} : \A f \in Feeds :
          item.url = Undefined /\ toCachedJob(item, f).link = <<>>
    /\ op.kind = "dedup" =>
          /\ Cardinality(BlankKeyed(op.once)) <= 1
          /\ BlankKeyed(op.input) # {} =>
                \E i \in BlankKeyed(op.once) :
                    /\ op.once[i] = op.input[CHOOSE k \in BlankKeyed(op.input) :
                                                \A j \in BlankKeyed(op.input) : k <= j]
                    /\ Len(op.once) = Len(deduplicateJobs(
                           SelectSeq(op.input, LAMBDA job : linkKey(job) # <<>>))) + 1

\* two different jobs without URL and one with a blank URL: only the first
\* of the three is kept
C28_Witness ==
    /\ op.kind = "dedup"
    /\ Len(op.input) = 3
    /\ op.input[1].link = <<>> /\ op.input[2].link = <<>>
    /\ op.input[1].title # op.input[2].title
    /\ op.input[3].link # <<>> /\ linkKey(op.input[3]) = <<>>
    /\ op.once = <<op.input[1]>>

\* some request in flight has an answer with which it completes and saves
\* its listings
CanSettleAndSave ==
    \E p \in 1..Len(passes) : \E k \in 1..Len(passes[p].calls) :
        /\ passes[p].calls[k].stage = "fetching"
        /\ \E a \in SchedAnswers(passes[p].calls[k].feed) :
              fetchFresh(disk, now, passes[p].calls[k].feed, a, TRUE).wrote

\* every pass started so far has run to its end
AllPassesDone == \A p \in 1..Len(passes) : passes[p].done

\* C29: the timer starts a pass only while the scheduler is running, so none
\* between a stop and the next start; a stop changes no pass and no cache
\* file; a request in flight while the scheduler is stopped can still
\* complete and save its listings; and the passes that are unfinished while
\* the scheduler is stopped run to their end.
C29_StopKeepsPassesRunning ==
    /\ [][/\ (Len(passes') > Len(passes) /\ passes'[Len(passes')].origin = "tick")
               => (isSchedulerActive /\ isSchedulerActive')
          /\ (~isSchedulerActive /\ Len(passes') > Len(passes)) => isSchedulerActive'
          /\ (isSchedulerActive /\ ~isSchedulerActive')
               => (passes' = passes /\ disk' = disk /\ now' = now /\ RunningTasks' = {})
          /\ \A p \in 1..Len(passes) : passes[p].done => passes'[p] = passes[p]]_vars
    /\ []((~isSchedulerActive /\ AnyFetching) => CanSettleAndSave)
    /\ (~isSchedulerActive /\ ~AllPassesDone) ~> AllPassesDone

\* the scheduler was stopped while the request of its start-up pass is in
\* flight
C29_Witness ==
    /\ sched = [kind |-> "stop", wasActive |-> TRUE]
    /\ ~isSchedulerActive
    /\ Len(passes) = 1
    /\ ~passes[1].done
    /\ passes[1].calls[1].stage = "fetching"
    /\ disk = NoFiles

\* the listing made from a feed item whose title is the text w
ListingTitled(w) ==
    toCachedJob([title |-> w, url |-> Undefined, description |-> Undefined,
                 published |-> Undefined], AllFeeds[1])

\* C30: for a query of one word w of more than two characters that is no
\* stopword, the keyword is a substring of the lower-cased w, and the keyword
\* filter matches a listing whose title is w.
C30_StemWithinWord ==
    (/\ op.kind = "keywords"
     /\ op.input \in KeywordTokens
     /\ Len(op.input) > 2
     /\ toLowerCase(op.input) \notin stopwords) =>
        /\ Len(op.keywords) = 1
        /\ includes(toLowerCase(op.input), op.keywords[1])
        /\ matchesKeywords(ListingTitled(op.input), op.keywords)
=============================================================================
